---- MODULE Spec2Model ----
(***************************************************************************)
(* Model of radicale_auth_ldap: the Auth plugin of Radicale that checks a  *)
(* login/password pair against an LDAP directory (search bind, then a      *)
(* verification bind as the DN that was found).                            *)
(*                                                                         *)
(* Strings that the code only passes around are TLA+ strings.  Strings the *)
(* code takes apart or puts together (the URL, the login, the search       *)
(* filter) are sequences of tokens: one token per character that matters   *)
(* ("(", ")", "*", "\\", "NUL", "=", "&", hex digits) and one token per    *)
(* atom (an attribute name, an object class).  The empty Python string is  *)
(* the empty sequence.                                                     *)
(***************************************************************************)
EXTENDS Integers, Sequences, FiniteSets, TLC

VARIABLES
    config,   \* the configuration source handed to Auth(configuration)
    ctor,     \* "none": not constructed yet, "ok", "raised"
    auth,     \* the attributes of the Auth instance (meaningful when ctor = "ok")
    dir,      \* how the directory service behaves (the environment)
    calls     \* one record per invocation of Auth.login: its locals and position

vars == <<config, ctor, auth, dir, calls>>

\* ---------------------------------------------------------------- bounds

\* Longest login (in characters) the filter specification enumerates.
MaxLoginLen == 2

\* Largest number of directory operations that fail in one directory state.
MaxFaults == 1

\* ------------------------------------------------------- Python values

\* A Python value whose type matters to parse_bool: a str or the bool True.
Str(s) == [type |-> "str", repr |-> s]

PyTrue == [type |-> "bool", repr |-> "True"]

\* parse_bool(v): raised = TRUE stands for ValueError("Not a bool").
parse_bool(v) ==
    IF v \in {Str("True"), Str("true"), Str("yes")}
    THEN [raised |-> FALSE, value |-> TRUE]
    ELSE IF v \in {Str("False"), Str("false"), Str("no")}
         THEN [raised |-> FALSE, value |-> FALSE]
         ELSE [raised |-> TRUE, value |-> FALSE]

\* ------------------------------------------------------- configuration

Keys == {"ldap_url", "ldap_base", "ldap_filter", "ldap_attribute",
         "ldap_binddn", "ldap_password", "ldap_scope", "ldap_support_extended"}

\* PLUGIN_CONFIG_SCHEMA["auth"]: the documented default and the type of each key.
PLUGIN_CONFIG_SCHEMA ==
    [ldap_url      |-> [value |-> <<"ldap://localhost:389">>, type |-> "str"],
     ldap_base     |-> [value |-> "ou=users,dc=example,dc=com", type |-> "str"],
     ldap_filter   |-> [value |-> <<"(", "&", "(", "objectclass", "=", "user", ")",
                                    "(", "username", "=", "%username", ")", ")">>,
                        type |-> "str"],
     ldap_attribute |-> [value |-> "username", type |-> "str"],
     ldap_binddn   |-> [value |-> "", type |-> "str"],
     ldap_password |-> [value |-> "", type |-> "str"],
     ldap_scope    |-> [value |-> "LEVEL", type |-> "str"],
     ldap_support_extended |-> [value |-> Str("True"), type |-> "parse_bool"]]

\* An option of the configuration source: set by the administrator, or not.
Set(v) == [set |-> TRUE, value |-> v]

Unset(v) == [set |-> FALSE, value |-> v]

\* configuration.options("auth"): the keys the source holds.
options(cfg) == {k \in Keys : cfg[k].set}

\* configuration.get("auth", k): raised = TRUE stands for KeyError.
configuration_get(cfg, k) == [raised |-> ~cfg[k].set, value |-> cfg[k].value]

\* The type a schema entry names, applied to a raw value; str never raises.
ConvertOption_unchecked(k, v) == [raised |-> FALSE]

ConvertOption(k, v) ==
    IF PLUGIN_CONFIG_SCHEMA[k].type = "parse_bool"
    THEN [raised |-> parse_bool(v).raised]
    ELSE [raised |-> FALSE]

\* configuration.copy(PLUGIN_CONFIG_SCHEMA): every option the source holds is
\* converted by the type its schema entry names; a failing conversion raises.
configuration_copy(cfg) ==
    [raised |-> \E k \in options(cfg) : ConvertOption(k, cfg[k].value).raised]

\* The class attributes of Auth.
ClassAttributes ==
    [ldap_url |-> <<>>,
     ldap_base |-> "",
     ldap_filter |-> <<>>,
     ldap_attribute |-> "user",
     ldap_binddn |-> "",
     ldap_password |-> "",
     ldap_scope |-> "LEVEL",
     ldap_support_extended |-> PyTrue]

\* str.rstrip("/") on a token sequence.
RECURSIVE rstrip(_)
rstrip(s) ==
    IF s # <<>> /\ s[Len(s)] = "/" THEN rstrip(SubSeq(s, 1, Len(s) - 1)) ELSE s

\* The checks for the two mandatory keys.
RequiredMissing_url_only(cfg) == "ldap_url" \notin options(cfg)

RequiredMissing(cfg) ==
    "ldap_url" \notin options(cfg) \/ "ldap_base" \notin options(cfg)

\* try: self.k = configuration.get("auth", k) / except KeyError: pass
Optional(cfg, k) ==
    IF configuration_get(cfg, k).raised
    THEN ClassAttributes[k]
    ELSE configuration_get(cfg, k).value

\* Auth.__init__(configuration): raised, or the attributes of the new instance.
Auth__init__(cfg) ==
    IF configuration_copy(cfg).raised \/ RequiredMissing(cfg)
    THEN [raised |-> TRUE, self |-> ClassAttributes]
    ELSE [raised |-> FALSE,
          self |-> [ldap_url |-> rstrip(configuration_get(cfg, "ldap_url").value),
                    ldap_base |-> configuration_get(cfg, "ldap_base").value,
                    ldap_filter |-> Optional(cfg, "ldap_filter"),
                    ldap_attribute |-> Optional(cfg, "ldap_attribute"),
                    ldap_binddn |-> Optional(cfg, "ldap_binddn"),
                    ldap_password |-> Optional(cfg, "ldap_password"),
                    ldap_scope |-> Optional(cfg, "ldap_scope"),
                    ldap_support_extended |-> Optional(cfg, "ldap_support_extended")]]

\* ------------------------------------------------------ search filters

\* ldap3imports.escape_attribute_value applied to one character: the filter
\* metacharacters become a backslash and two hexadecimal digits (RFC 4515).
EscapeChar(ch) ==
    CASE ch = "*"   -> <<"\\", "2", "a">>
      [] ch = "("   -> <<"\\", "2", "8">>
      [] ch = ")"   -> <<"\\", "2", "9">>
      [] ch = "\\"  -> <<"\\", "5", "c">>
      [] ch = "NUL" -> <<"\\", "0", "0">>
      [] OTHER      -> <<ch>>

RECURSIVE escape_attribute_value(_)
escape_attribute_value(s) ==
    IF s = <<>> THEN <<>>
    ELSE EscapeChar(Head(s)) \o escape_attribute_value(Tail(s))

\* "%s=%s" % (self.ldap_attribute, escape_attribute_value(login))
distinguished_name_raw(self, login) == <<self.ldap_attribute, "=">> \o login

distinguished_name(self, login) ==
    <<self.ldap_attribute, "=">> \o escape_attribute_value(login)

\* if self.ldap_filter: "(&(%s)%s)" % (distinguished_name, self.ldap_filter)
\* else: distinguished_name
filter_string_always_wrapped(self, login) ==
    <<"(", "&", "(">> \o distinguished_name(self, login) \o <<")">>
        \o self.ldap_filter \o <<")">>

filter_string_of(self, login) ==
    IF self.ldap_filter # <<>>
    THEN <<"(", "&", "(">> \o distinguished_name(self, login) \o <<")">>
             \o self.ldap_filter \o <<")">>
    ELSE distinguished_name(self, login)

\* The arguments of conn.search.
SearchRequest(self, login) ==
    [search_base |-> self.ldap_base,
     search_scope |-> self.ldap_scope,
     search_filter |-> filter_string_of(self, login),
     attributes |-> <<self.ldap_attribute>>]

\* ------------------------------------------------- the directory service

\* The character a backslash escape of an assertion value stands for.
Unescape(h1, h2) ==
    CASE h1 = "2" /\ h2 = "a" -> "*"
      [] h1 = "2" /\ h2 = "8" -> "("
      [] h1 = "2" /\ h2 = "9" -> ")"
      [] h1 = "5" /\ h2 = "c" -> "\\"
      [] h1 = "0" /\ h2 = "0" -> "NUL"
      [] OTHER -> "?"

\* An assertion value as a pattern: a raw "*" is a wildcard, an escape is the
\* character it stands for, anything else is itself.  ok = FALSE: a raw
\* parenthesis or a backslash that starts no escape.
RECURSIVE Pattern(_)
Pattern(v) ==
    IF v = <<>> THEN [ok |-> TRUE, p |-> <<>>]
    ELSE IF Head(v) = "\\"
         THEN IF Len(v) >= 3 /\ Unescape(v[2], v[3]) # "?"
              THEN LET r == Pattern(SubSeq(v, 4, Len(v)))
                   IN [ok |-> r.ok,
                       p |-> <<[star |-> FALSE, ch |-> Unescape(v[2], v[3])]>> \o r.p]
              ELSE [ok |-> FALSE, p |-> <<>>]
         ELSE IF Head(v) \in {"(", ")"}
              THEN [ok |-> FALSE, p |-> <<>>]
              ELSE LET r == Pattern(Tail(v))
                   IN [ok |-> r.ok,
                       p |-> <<[star |-> Head(v) = "*", ch |-> Head(v)]>> \o r.p]

\* Does the value s match the pattern p (equality, presence or substrings)?
RECURSIVE Glob(_, _)
Glob(p, s) ==
    IF p = <<>> THEN s = <<>>
    ELSE IF p[1].star
         THEN Glob(Tail(p), s) \/ (s # <<>> /\ Glob(p, Tail(s)))
         ELSE s # <<>> /\ s[1] = p[1].ch /\ Glob(Tail(p), Tail(s))

\* One item "attr=value" of a filter, evaluated on the entry e.
EvalItem(item, e) ==
    IF Len(item) < 2 \/ item[2] # "="
    THEN [ok |-> FALSE, val |-> FALSE]
    ELSE LET pat == Pattern(SubSeq(item, 3, Len(item)))
         IN [ok |-> pat.ok,
             val |-> /\ pat.ok
                     /\ item[1] \in DOMAIN e.attributes
                     /\ Glob(pat.p, e.attributes[item[1]])]

\* The position of the first ")" at or after i (0: there is none).
RECURSIVE Closing(_, _)
Closing(f, i) ==
    IF i > Len(f) THEN 0 ELSE IF f[i] = ")" THEN i ELSE Closing(f, i + 1)

\* The filter that starts at position i of f, evaluated on the entry e:
\* "(" then "&" or "|" and a list of filters, "!" and one filter, or an item.
RECURSIVE EvalFilter(_, _, _)
RECURSIVE EvalList(_, _, _, _, _)
EvalFilter(f, i, e) ==
    LET bad == [ok |-> FALSE, val |-> FALSE, next |-> 0]
    IN IF i + 1 > Len(f) \/ f[i] # "(" THEN bad
       ELSE IF f[i + 1] \in {"&", "|"}
            THEN EvalList(f, i + 2, e, f[i + 1] = "&", f[i + 1])
       ELSE IF f[i + 1] = "!"
            THEN LET r == EvalFilter(f, i + 2, e)
                 IN IF r.ok /\ r.next <= Len(f) /\ f[r.next] = ")"
                    THEN [ok |-> TRUE, val |-> ~r.val, next |-> r.next + 1]
                    ELSE bad
       ELSE LET j == Closing(f, i + 1)
            IN IF j = 0 THEN bad
               ELSE LET r == EvalItem(SubSeq(f, i + 1, j - 1), e)
                    IN [ok |-> r.ok, val |-> r.val, next |-> j + 1]

EvalList(f, i, e, acc, op) ==
    IF i > Len(f) THEN [ok |-> FALSE, val |-> FALSE, next |-> 0]
    ELSE IF f[i] = ")" THEN [ok |-> TRUE, val |-> acc, next |-> i + 1]
    ELSE LET r == EvalFilter(f, i, e)
         IN IF ~r.ok THEN [ok |-> FALSE, val |-> FALSE, next |-> 0]
            ELSE EvalList(f, r.next, e,
                          IF op = "&" THEN acc /\ r.val ELSE acc \/ r.val, op)

\* A filter without its outer parentheses is sent enclosed in them.
Enclosed(f) == IF f # <<>> /\ f[1] = "(" THEN f ELSE <<"(">> \o f \o <<")">>

\* Is f a filter the client can encode?
ValidFilter(f) ==
    LET r == EvalFilter(Enclosed(f), 1, [attributes |-> [none |-> <<>>]])
    IN r.ok /\ r.next = Len(Enclosed(f)) + 1

\* Does the entry e satisfy f?
Matches(f, e) == EvalFilter(Enclosed(f), 1, e).val

\* The entries of the directory, in the order the service returns them; all lie
\* under the configured base, depth levels below it.
Directory ==
    <<[dn |-> "uid=a,ou=users", depth |-> 1,
       attributes |-> [username |-> <<"a">>, user |-> <<"a">>,
                       objectclass |-> <<"user">>]],
      [dn |-> "uid=b1,ou=users", depth |-> 1,
       attributes |-> [username |-> <<"b">>, user |-> <<"b">>,
                       objectclass |-> <<"user">>]],
      [dn |-> "uid=b2,ou=sub,ou=users", depth |-> 2,
       attributes |-> [username |-> <<"b">>, user |-> <<"b">>,
                       objectclass |-> <<"user">>]],
      [dn |-> "uid=star,ou=users", depth |-> 1,
       attributes |-> [username |-> <<"*">>, user |-> <<"*">>,
                       objectclass |-> <<"user">>]],
      [dn |-> "cn=a,ou=users", depth |-> 1,
       attributes |-> [username |-> <<"a">>, user |-> <<"a">>,
                       objectclass |-> <<"group">>]]>>

\* The password the directory accepts for a DN.
PasswordOf(dn) == IF dn = "uid=b2,ou=sub,ou=users" THEN "pw2" ELSE "pw1"

\* Is an entry at this depth below the base within the scope?
InScope(scope, depth) ==
    CASE scope = "BASE" -> depth = 0
      [] scope = "LEVEL" -> depth = 1
      [] scope = "SUBTREE" -> TRUE
      [] OTHER -> FALSE

\* What the service returns for an entry: its DN and the requested attributes.
ResponseEntry(e, attrs) ==
    [type |-> "searchResEntry", dn |-> e.dn,
     attributes |-> [k \in {attrs[n] : n \in DOMAIN attrs} \cap DOMAIN e.attributes
                       |-> e.attributes[k]]]

\* A continuation reference: an element of conn.response that has no 'dn'.
Referral == [type |-> "searchResRef", uri |-> "ldap://other"]

\* conn.response after conn.search(req) on the directory state d.
SearchResponse(d, req) ==
    LET hit(e) == InScope(req.search_scope, e.depth) /\ Matches(req.search_filter, e)
        found == SelectSeq(Directory, hit)
    IN [n \in DOMAIN found |-> ResponseEntry(found[n], req.attributes)]
       \o (IF d.referral THEN <<Referral>> ELSE <<>>)

\* Directory operations of one call that the directory state can make fail.
Ops == {"svc_bind_raise", "svc_bind_reject", "svc_whoami", "search",
        "vfy_bind", "vfy_whoami"}

\* The directory states: which operations fail, whether the service implements
\* the who-am-i operation, what it answers to who-am-i on a connection whose
\* bind it rejected, and whether a search also returns a continuation reference.
DirStates ==
    {[faults |-> F, whoami_supported |-> w, anon_whoami |-> a, referral |-> r] :
        F \in {S \in SUBSET Ops : Cardinality(S) <= MaxFaults},
        w \in BOOLEAN, a \in {"", "dn:"}, r \in BOOLEAN}

\* conn.extend.standard.who_am_i() on a connection in state conn, bound as dn.
who_am_i(d, conn, dn) ==
    IF conn = "bound"
    THEN IF d.whoami_supported THEN "dn:" ELSE "None"
    ELSE d.anon_whoami

\* Python truth of what who_am_i returned (None and "" are false).
Truthy(v) == v \notin {"", "None"}

\* ------------------------------------------------------------ Auth.login

CallPcs == {"idle", "bind", "whoami", "search", "unbind", "vbind", "vwhoami",
            "vunbind", "returned", "raised"}

NoRequest ==
    [search_base |-> "", search_scope |-> "", search_filter |-> <<>>,
     attributes |-> <<>>]

\* A call that has not started: no locals, no connection.
IdleCall ==
    [pc |-> "idle", login |-> <<>>, password |-> "",
     svc |-> "none", svc_user |-> "", request |-> NoRequest, users |-> <<>>,
     user_dn |-> "", vfy |-> "none", bind_result |-> -1,
     whoami |-> FALSE, whoami_called |-> FALSE,
     result |-> <<>>, exc |-> "", log |-> <<>>]

\* if self.ldap_binddn and self.ldap_password: the identity of the service bind
\* ("" is the anonymous bind).
ServiceIdentity(self) ==
    IF self.ldap_binddn # "" /\ self.ldap_password # ""
    THEN self.ldap_binddn ELSE ""

\* if users:
UsersFound_always(users) == TRUE

UsersFound(users) == users # <<>>

\* users[0]: the entry of the response that login reads.
SelectedEntry_last(users) == users[Len(users)]

SelectedEntry(users) == users[1]

\* users[0]['dn'] and users[0]['attributes'][self.ldap_attribute] can be read.
FirstReadable(users, self) ==
    /\ "dn" \in DOMAIN SelectedEntry(users)
    /\ "attributes" \in DOMAIN SelectedEntry(users)
    /\ self.ldap_attribute \in DOMAIN SelectedEntry(users).attributes

\* conn.result['result'] == 0
ResultCodeOk_any(code) == TRUE

ResultCodeOk(code) == code = 0

\* conn.unbind(): the state of the connection afterwards.
unbind_skipped(conn) == conn

unbind(conn) == "unbound"

\* The except clauses of the verification phase: LDAPInvalidCredentialsResult,
\* then Exception, which catches everything the phase can raise.
Caught_invalid_credentials_only(exc) == exc = "LDAPInvalidCredentialsResult"

Caught(exc) == TRUE

\* The except clauses of the verification phase: what each logs.
Handler(exc) ==
    IF exc = "LDAPInvalidCredentialsResult"
    THEN "error: LDAP invalid credentials"
    ELSE "error: LDAP error"

\* A local variable of the call c (every invocation has its own frame).
Local_of_first_call(c, name) == calls[1][name]

Local(c, name) == calls[c][name]

\* The call c with some locals changed.
With(c, changes) ==
    [k \in DOMAIN calls[c] |->
        IF k \in DOMAIN changes THEN changes[k] ELSE calls[c][k]]

Put(c, changes) == calls' = [calls EXCEPT ![c] = With(c, changes)]

Logged(c, events) == calls[c].log \o events

\* An exception raised inside the try of the verification phase: a handler
\* logs it and login returns "" (or it leaves login, if no handler catches it).
VerifyRaised(c, exc, events, changes) ==
    IF Caught(exc)
    THEN Put(c, [pc |-> "returned", result |-> <<>>, exc |-> exc,
                 log |-> Logged(c, events \o <<Handler(exc)>>)] @@ changes)
    ELSE Put(c, [pc |-> "raised", exc |-> exc,
                 log |-> Logged(c, events)] @@ changes)

\* Auth(configuration)
Construct(cfg) ==
    /\ ctor = "none"
    /\ config' = cfg
    /\ ctor' = IF Auth__init__(cfg).raised THEN "raised" ELSE "ok"
    /\ auth' = IF Auth__init__(cfg).raised THEN auth ELSE Auth__init__(cfg).self
    /\ UNCHANGED <<dir, calls>>

\* login(login, password) is entered: the server object and the service
\* connection are created (no network traffic yet).
Login(c, login, password) ==
    /\ ctor = "ok"
    /\ calls[c].pc = "idle"
    /\ Put(c, [pc |-> "bind", login |-> login, password |-> password,
               svc |-> "closed", svc_user |-> ServiceIdentity(auth)])
    /\ UNCHANGED <<config, ctor, auth, dir>>

\* conn.bind() on the service connection.
SvcBind(c) ==
    /\ calls[c].pc = "bind"
    /\ IF "svc_bind_raise" \in dir.faults
       THEN Put(c, [pc |-> "raised", exc |-> "LDAPSocketOpenError"])
       ELSE Put(c, [pc |-> "whoami",
                    svc |-> IF "svc_bind_reject" \in dir.faults
                            THEN "open" ELSE "bound"])
    /\ UNCHANGED <<config, ctor, auth, dir>>

\* try: logger.debug(... who_am_i()) except Exception: logger.error(...)
SvcWhoami(c) ==
    /\ calls[c].pc = "whoami"
    /\ Put(c, [pc |-> "search",
               log |-> Logged(c, IF "svc_whoami" \in dir.faults
                                 THEN <<"error: LDAP error">>
                                 ELSE <<"debug: LDAP whoami">>)])
    /\ UNCHANGED <<config, ctor, auth, dir>>

\* The filter is composed and conn.search is called; users = conn.response.
Search(c) ==
    /\ calls[c].pc = "search"
    /\ LET req == SearchRequest(auth, Local(c, "login"))
           log == Logged(c, <<"debug: LDAP bind for", "debug: LDAP filter">>)
       IN IF ~ValidFilter(req.search_filter)
          THEN Put(c, [pc |-> "raised", exc |-> "LDAPInvalidFilterError",
                       request |-> req, log |-> log])
          ELSE IF "search" \in dir.faults
          THEN Put(c, [pc |-> "raised", exc |-> "LDAPSocketReceiveError",
                       request |-> req, log |-> log])
          ELSE Put(c, [pc |-> "unbind", request |-> req, log |-> log,
                       users |-> SearchResponse(dir, req)])
    /\ UNCHANGED <<config, ctor, auth, dir>>

\* conn.unbind(), then the branch on users: the first entry is read and the
\* verification connection is created, or the user is reported as not found.
SvcUnbind(c) ==
    /\ calls[c].pc = "unbind"
    /\ LET users == Local(c, "users")
           svc == unbind(Local(c, "svc"))
       IN IF UsersFound(users)
          THEN IF Len(users) = 0
               THEN Put(c, [pc |-> "raised", exc |-> "IndexError", svc |-> svc])
               ELSE IF ~FirstReadable(users, auth)
               THEN Put(c, [pc |-> "raised", exc |-> "KeyError", svc |-> svc])
               ELSE Put(c, [pc |-> "vbind", svc |-> svc,
                            user_dn |-> SelectedEntry(users).dn, vfy |-> "closed",
                            log |-> Logged(c, <<"info: LDAP user found">>)])
          ELSE Put(c, [pc |-> "returned", svc |-> svc, result |-> <<>>,
                       log |-> Logged(c, <<"error: LDAP user not found">>)])
    /\ UNCHANGED <<config, ctor, auth, dir>>

\* conn.bind() as the DN found, then parse_bool(self.ldap_support_extended);
\* with the flag false, whoami is the bind's result code being 0.
VfyBind(c) ==
    /\ calls[c].pc = "vbind"
    /\ IF "vfy_bind" \in dir.faults
       THEN VerifyRaised(c, "LDAPSocketOpenError", <<>>, <<>>)
       ELSE LET ok == Local(c, "password") = PasswordOf(Local(c, "user_dn"))
                code == IF ok THEN 0 ELSE 49
                conn == IF ok THEN "bound" ELSE "open"
                flag == parse_bool(auth.ldap_support_extended)
            IN IF flag.raised
               THEN VerifyRaised(c, "ValueError", <<"debug: result">>,
                                 [vfy |-> conn, bind_result |-> code])
               ELSE IF flag.value
               THEN Put(c, [pc |-> "vwhoami", vfy |-> conn,
                            bind_result |-> code,
                            log |-> Logged(c, <<"debug: result">>)])
               ELSE Put(c, [pc |-> "vunbind", vfy |-> conn,
                            bind_result |-> code, whoami |-> ResultCodeOk(code),
                            log |-> Logged(c, <<"debug: result",
                                                "debug: LDAP skip extended">>)])
    /\ UNCHANGED <<config, ctor, auth, dir>>

\* whoami = conn.extend.standard.who_am_i() on the verification connection.
VfyWhoami(c) ==
    /\ calls[c].pc = "vwhoami"
    /\ IF "vfy_whoami" \in dir.faults
       THEN VerifyRaised(c, "LDAPExtensionError", <<>>,
                         [whoami_called |-> TRUE])
       ELSE Put(c, [pc |-> "vunbind", whoami_called |-> TRUE,
                    whoami |-> Truthy(who_am_i(dir, Local(c, "vfy"),
                                               Local(c, "user_dn"))),
                    log |-> Logged(c, <<"debug: LDAP whoami">>)])
    /\ UNCHANGED <<config, ctor, auth, dir>>

\* conn.unbind() on the verification connection, then the result.
VfyUnbind(c) ==
    /\ calls[c].pc = "vunbind"
    /\ IF Local(c, "whoami")
       THEN Put(c, [pc |-> "returned", vfy |-> unbind(Local(c, "vfy")),
                    result |-> Local(c, "login"),
                    log |-> Logged(c, <<"info: LDAP bind OK">>)])
       ELSE Put(c, [pc |-> "returned", vfy |-> unbind(Local(c, "vfy")),
                    result |-> <<>>,
                    log |-> Logged(c, <<"error: LDAP bind failed">>)])
    /\ UNCHANGED <<config, ctor, auth, dir>>

\* The host has the result (or the exception); the call's locals are gone.
Return(c) ==
    /\ calls[c].pc \in {"returned", "raised"}
    /\ calls' = [calls EXCEPT ![c] = IdleCall]
    /\ UNCHANGED <<config, ctor, auth, dir>>

\* ---------------------------------------------------------- inputs

UrlOpts == {Unset(<<>>), Set(<<"ldap://localhost:389", "/">>)}

BaseOpts == {Unset(""), Set("ou=users,dc=example,dc=com")}

FilterOpts == {Unset(<<>>), Set(<<"(", "objectclass", "=", "user", ")">>)}

AttributeOpts == {Unset(""), Set("username")}

BindOpts == {<<Unset(""), Unset("")>>, <<Set("cn=svc"), Set("secret")>>}

ScopeOpts == {Unset(""), Set("SUBTREE")}

ExtendedOpts ==
    {Unset(Str(""))} \cup
    {Set(Str(s)) : s \in {"True", "yes", "False", "maybe"}}

\* The configuration sources an administrator can hand to the constructor.
ConfigSources ==
    {[ldap_url |-> u, ldap_base |-> b, ldap_filter |-> f, ldap_attribute |-> a,
      ldap_binddn |-> bp[1], ldap_password |-> bp[2], ldap_scope |-> s,
      ldap_support_extended |-> x] :
        u \in UrlOpts, b \in BaseOpts, f \in FilterOpts, a \in AttributeOpts,
        bp \in BindOpts, s \in ScopeOpts, x \in ExtendedOpts}

NoConfig ==
    [ldap_url |-> Unset(<<>>), ldap_base |-> Unset(""),
     ldap_filter |-> Unset(<<>>), ldap_attribute |-> Unset(""),
     ldap_binddn |-> Unset(""), ldap_password |-> Unset(""),
     ldap_scope |-> Unset(""), ldap_support_extended |-> Unset(Str(""))]

Logins == {<<"a">>, <<"b">>, <<"*">>, <<"c">>}

Passwords == {"pw1", "pw2"}

\* -------------------------------------------------------- specification

Init ==
    /\ config = NoConfig
    /\ ctor = "none"
    /\ auth = ClassAttributes
    /\ dir \in DirStates
    /\ calls = [c \in {1} |-> IdleCall]

Next ==
    \/ \E cfg \in ConfigSources : Construct(cfg)
    \/ \E c \in DOMAIN calls, login \in Logins, password \in Passwords :
          Login(c, login, password)
    \/ \E c \in DOMAIN calls : SvcBind(c)
    \/ \E c \in DOMAIN calls : SvcWhoami(c)
    \/ \E c \in DOMAIN calls : Search(c)
    \/ \E c \in DOMAIN calls : SvcUnbind(c)
    \/ \E c \in DOMAIN calls : VfyBind(c)
    \/ \E c \in DOMAIN calls : VfyWhoami(c)
    \/ \E c \in DOMAIN calls : VfyUnbind(c)
    \/ \E c \in DOMAIN calls : Return(c)

Spec == Init /\ [][Next]_vars

\* The specification of the search filter: an authenticator constructed from a
\* configuration with or without an extra filter, a directory service without
\* failures, and every login of up to MaxLoginLen characters.
FilterChars == {"a", "b", "2", "*", "(", ")", "\\", "NUL"}

LoginsUpTo(n) == UNION {[1..k -> FilterChars] : k \in 0..n}

FilterConfigs ==
    {cfg \in ConfigSources :
        /\ {"ldap_url", "ldap_base"} \subseteq options(cfg)
        /\ "ldap_binddn" \notin options(cfg)
        /\ "ldap_scope" \notin options(cfg)
        /\ cfg.ldap_support_extended = Set(Str("True"))}

InitFilter ==
    /\ config \in FilterConfigs
    /\ ctor = "ok"
    /\ auth = Auth__init__(config).self
    /\ dir = [faults |-> {}, whoami_supported |-> TRUE, anon_whoami |-> "",
              referral |-> FALSE]
    /\ calls = [c \in {1} |-> IdleCall]

NextFilter ==
    \/ \E c \in DOMAIN calls, login \in LoginsUpTo(MaxLoginLen) :
          Login(c, login, "pw1")
    \/ \E c \in DOMAIN calls : SvcBind(c)
    \/ \E c \in DOMAIN calls : SvcWhoami(c)
    \/ \E c \in DOMAIN calls : Search(c)
    \/ \E c \in DOMAIN calls : SvcUnbind(c)
    \/ \E c \in DOMAIN calls : VfyBind(c)
    \/ \E c \in DOMAIN calls : VfyWhoami(c)
    \/ \E c \in DOMAIN calls : VfyUnbind(c)
    \/ \E c \in DOMAIN calls : Return(c)

SpecFilter == InitFilter /\ [][NextFilter]_vars

\* ------------------------------------------------------------- claims

\* The call c has ended: it returned a value or an exception left login.
Ended(c) == calls[c].pc \in {"returned", "raised"}

\* The search of call c resolved to exactly one directory entry.
OneEntry(c) ==
    /\ Len(calls[c].users) = 1
    /\ calls[c].users[1].type = "searchResEntry"
    /\ calls[c].user_dn = calls[c].users[1].dn

\* C1: for every configuration the constructor accepts, the optional keys left
\* to their defaults included, and every login whose search resolves to exactly
\* one entry, login with the password the directory accepts for that entry's DN
\* returns exactly the input login.  Stated here for the directory that gives
\* the code the least trouble: no operation fails and who-am-i is implemented.
C1_AcceptedPasswordReturnsLogin ==
    \A c \in DOMAIN calls :
        (/\ calls[c].pc = "returned"
         /\ OneEntry(c)
         /\ calls[c].password = PasswordOf(calls[c].user_dn)
         /\ dir.faults = {}
         /\ dir.whoami_supported)
        => calls[c].result = calls[c].login

\* C2: for every login whose search resolves to exactly one entry, login with a
\* password the directory rejects for that entry's DN returns the empty string,
\* with extended confirmation enabled and with it disabled.
C2_RejectedPasswordReturnsEmpty ==
    \A c \in DOMAIN calls :
        (/\ calls[c].pc = "returned"
         /\ OneEntry(c)
         /\ calls[c].password # PasswordOf(calls[c].user_dn))
        => calls[c].result = <<>>

\* C3: when the search yields zero entries, login returns the empty string,
\* logs the 'user not found' event and does not raise.
C3_NotFoundReturnsEmpty ==
    \A c \in DOMAIN calls :
        (calls[c].svc = "unbound" /\ calls[c].users = <<>>)
        => /\ calls[c].pc = "returned"
           /\ calls[c].result = <<>>
           /\ calls[c].exc = ""
           /\ \E n \in DOMAIN calls[c].log :
                 calls[c].log[n] = "error: LDAP user not found"

C3_Witness ==
    \E c \in DOMAIN calls :
        /\ calls[c].pc = "returned"
        /\ calls[c].svc = "unbound"
        /\ calls[c].users = <<>>
        /\ calls[c].login = <<"c">>

\* C4: whatever the directory service does, no exception propagates from login
\* to the host.
C4_NoExceptionReachesTheHost ==
    \A c \in DOMAIN calls : calls[c].pc # "raised"

\* C5: a verification connection that login opened has been unbound by the
\* time the call returns, on every exit path.
C5_VerificationConnectionUnbound ==
    \A c \in DOMAIN calls :
        (calls[c].pc = "returned" /\ calls[c].vfy \notin {"none", "closed"})
        => calls[c].vfy = "unbound"

\* C6: a service connection that login opened has been unbound by the time the
\* call ends, whether or not the bind, the who-am-i probe and the search
\* succeeded.
C6_ServiceConnectionUnbound ==
    \A c \in DOMAIN calls :
        (Ended(c) /\ calls[c].svc \notin {"none", "closed"})
        => calls[c].svc = "unbound"

\* The entries an exact match returns: those in scope whose configured
\* attribute equals the raw login and that satisfy the configured extra filter.
ExactMatches(self, login) ==
    LET exact(e) ==
            /\ InScope(self.ldap_scope, e.depth)
            /\ self.ldap_attribute \in DOMAIN e.attributes
            /\ e.attributes[self.ldap_attribute] = login
            /\ (self.ldap_filter # <<>> => Matches(self.ldap_filter, e))
        found == SelectSeq(Directory, exact)
    IN [n \in DOMAIN found |-> ResponseEntry(found[n], <<self.ldap_attribute>>)]

\* C7: for every login, the filter metacharacters included, the search returns
\* exactly the entries whose configured attribute equals the raw login (and
\* that satisfy the extra filter): the filter is one the client can encode,
\* and no returned entry has an attribute value that differs from the login.
C7_FilterMatchesExactly ==
    \A c \in DOMAIN calls :
        /\ calls[c].exc # "LDAPInvalidFilterError"
        /\ calls[c].pc \in {"unbind", "vbind", "vwhoami", "vunbind"}
           => calls[c].users = ExactMatches(auth, calls[c].login)

C7_Witness ==
    \E c \in DOMAIN calls :
        /\ calls[c].pc = "unbind"
        /\ calls[c].login = <<"*">>
        /\ Len(calls[c].users) = 1
        /\ calls[c].users[1].dn = "uid=star,ou=users"

\* C8: constructing the authenticator from a configuration without ldap_url or
\* without ldap_base raises during construction: no instance exists and no
\* login is attempted with it.
C8_RequiredKeys ==
    (ctor # "none" /\ ~({"ldap_url", "ldap_base"} \subseteq options(config)))
    => /\ ctor = "raised"
       /\ auth = ClassAttributes
       /\ \A c \in DOMAIN calls : calls[c] = IdleCall

C8_Witness ==
    /\ ctor = "raised"
    /\ options(config) = {"ldap_url"}

\* C9: constructing the authenticator with an ldap_support_extended value the
\* parser rejects raises at load time; such a value is never stored and first
\* detected by the parser during a later login.
C9_MalformedFlagRaisesAtLoadTime ==
    /\ (/\ ctor # "none"
        /\ "ldap_support_extended" \in options(config)
        /\ parse_bool(config.ldap_support_extended.value).raised)
       => /\ ctor = "raised"
          /\ \A c \in DOMAIN calls : calls[c] = IdleCall
    /\ \A c \in DOMAIN calls :
          calls[c].exc = "ValueError"
          => "ldap_support_extended" \notin options(config)

C9_Witness ==
    /\ ctor = "raised"
    /\ {"ldap_url", "ldap_base"} \subseteq options(config)
    /\ config.ldap_support_extended = Set(Str("maybe"))

\* C10: after construction from a configuration that sets only ldap_url and
\* ldap_base, login uses the documented defaults: the filter template, the
\* attribute "username", the scope LEVEL, and an extended flag that the
\* login-time check treats as true.
C10_DocumentedDefaults ==
    (ctor = "ok" /\ options(config) = {"ldap_url", "ldap_base"})
    => /\ auth.ldap_filter = PLUGIN_CONFIG_SCHEMA.ldap_filter.value
       /\ auth.ldap_attribute = "username"
       /\ auth.ldap_scope = "LEVEL"
       /\ ~parse_bool(auth.ldap_support_extended).raised
       /\ parse_bool(auth.ldap_support_extended).value

\* Extended confirmation is disabled: the flag parses as false.
ExtendedDisabled ==
    /\ ctor = "ok"
    /\ ~parse_bool(auth.ldap_support_extended).raised
    /\ ~parse_bool(auth.ldap_support_extended).value

\* C11: with extended confirmation disabled, who-am-i is never invoked on the
\* verification connection and login returns the input login if and only if
\* the verification bind's result code is 0, also on a directory whose
\* who-am-i operation would fail.
C11_DisabledModeUsesResultCode ==
    ExtendedDisabled =>
        \A c \in DOMAIN calls :
            /\ ~calls[c].whoami_called
            /\ calls[c].pc = "returned"
               => (calls[c].result = calls[c].login <=> calls[c].bind_result = 0)

C11_Witness ==
    /\ ExtendedDisabled
    /\ "vfy_whoami" \in dir.faults
    /\ ~dir.whoami_supported
    /\ \E c \in DOMAIN calls :
          /\ calls[c].pc = "returned"
          /\ calls[c].bind_result = 0
          /\ calls[c].result = calls[c].login

\* What the verification phase returns for the DN dn, the login and the
\* password on the directory state d: the value of lines 198-220 as a function
\* of the one entry they read.
VerifyOutcome(self, d, dn, login, password) ==
    IF "vfy_bind" \in d.faults THEN <<>>
    ELSE LET ok == password = PasswordOf(dn)
             flag == parse_bool(self.ldap_support_extended)
         IN IF flag.raised THEN <<>>
            ELSE IF flag.value
            THEN IF "vfy_whoami" \in d.faults THEN <<>>
                 ELSE IF Truthy(who_am_i(d, IF ok THEN "bound" ELSE "open", dn))
                      THEN login ELSE <<>>
            ELSE IF ok THEN login ELSE <<>>

\* C12: when the search returns two or more entries, the verification bind is
\* made as the DN of the first entry in the order the directory returned them,
\* and the result of login is what the first entry alone determines.
C12_FirstEntryDecides ==
    \A c \in DOMAIN calls :
        (Len(calls[c].users) >= 2 /\ calls[c].vfy # "none")
        => /\ calls[c].user_dn = calls[c].users[1].dn
           /\ calls[c].bind_result # -1
              => calls[c].bind_result =
                    (IF calls[c].password = PasswordOf(calls[c].users[1].dn)
                     THEN 0 ELSE 49)
           /\ calls[c].pc = "returned"
              => calls[c].result =
                    VerifyOutcome(auth, dir, calls[c].users[1].dn,
                                  calls[c].login, calls[c].password)

C12_Witness ==
    \E c \in DOMAIN calls :
        /\ calls[c].pc = "returned"
        /\ Len(calls[c].users) = 2
        /\ calls[c].users[2].type = "searchResEntry"
        /\ calls[c].users[2].dn = "uid=b2,ou=sub,ou=users"
        /\ calls[c].password = PasswordOf(calls[c].users[2].dn)
        /\ calls[c].bind_result = 49
        /\ calls[c].result = <<>>

\* The credentials of call c are valid: the login resolved to an entry and the
\* directory accepts the password for that entry's DN.
ValidCredentials(c) ==
    /\ calls[c].users # <<>>
    /\ calls[c].users[1].type = "searchResEntry"
    /\ calls[c].password = PasswordOf(calls[c].users[1].dn)

\* A directory service on which no operation fails, that implements who-am-i
\* and answers it with the empty identity on a connection that is not bound.
WellBehaved(d) ==
    d.faults = {} /\ d.whoami_supported /\ d.anon_whoami = "" /\ ~d.referral

\* C13: for a fixed directory state and configuration every login call with
\* the same credentials returns the same result, the login for valid
\* credentials and the empty string for invalid ones, and leaves the
\* configuration attributes of the authenticator as construction set them.
\* Stated for the well-behaved directory.
C13_SameResultEveryCall ==
    (ctor = "ok" /\ WellBehaved(dir))
    => /\ auth = Auth__init__(config).self
       /\ \A c \in DOMAIN calls :
             calls[c].pc = "returned"
             => calls[c].result =
                   (IF ValidCredentials(c) THEN calls[c].login ELSE <<>>)

\* What login(login, password) does when it runs alone on the directory state
\* d: it raises, or it returns a value.
LoginOutcome(self, d, login, password) ==
    LET req == SearchRequest(self, login)
        users == SearchResponse(d, req)
        raised == [pc |-> "raised", result |-> <<>>]
    IN IF "svc_bind_raise" \in d.faults THEN raised
       ELSE IF ~ValidFilter(req.search_filter) \/ "search" \in d.faults THEN raised
       ELSE IF users = <<>> THEN [pc |-> "returned", result |-> <<>>]
       ELSE IF ~FirstReadable(users, self) THEN raised
       ELSE [pc |-> "returned",
             result |-> VerifyOutcome(self, d, users[1].dn, login, password)]

\* The specification of concurrent calls: two invocations of login on one
\* authenticator, interleaved at the granularity of their directory operations.
ConcurrentConfigs ==
    {cfg \in ConfigSources :
        /\ options(cfg) = {"ldap_url", "ldap_base", "ldap_scope",
                           "ldap_support_extended"}
        /\ cfg.ldap_support_extended \in {Set(Str("True")), Set(Str("False"))}}

ConcurrentLogins == {<<"b">>, <<"c">>}

InitConcurrent ==
    /\ config \in ConcurrentConfigs
    /\ ctor = "ok"
    /\ auth = Auth__init__(config).self
    /\ dir \in DirStates
    /\ calls = [c \in {1, 2} |-> IdleCall]

NextConcurrent ==
    \/ \E c \in DOMAIN calls, login \in ConcurrentLogins, password \in Passwords :
          Login(c, login, password)
    \/ \E c \in DOMAIN calls : SvcBind(c)
    \/ \E c \in DOMAIN calls : SvcWhoami(c)
    \/ \E c \in DOMAIN calls : Search(c)
    \/ \E c \in DOMAIN calls : SvcUnbind(c)
    \/ \E c \in DOMAIN calls : VfyBind(c)
    \/ \E c \in DOMAIN calls : VfyWhoami(c)
    \/ \E c \in DOMAIN calls : VfyUnbind(c)
    \/ \E c \in DOMAIN calls : Return(c)

SpecConcurrent == InitConcurrent /\ [][NextConcurrent]_vars

\* C14: when login calls on one authenticator are interleaved in any order at
\* the granularity of their directory operations, each call ends as it would
\* if it ran alone against the same directory state.
C14_InterleavedCallsAreIndependent ==
    \A c \in DOMAIN calls :
        Ended(c)
        => [pc |-> calls[c].pc, result |-> calls[c].result] =
              LoginOutcome(auth, dir, calls[c].login, calls[c].password)

C14_Witness ==
    \E c \in DOMAIN calls, o \in DOMAIN calls :
        /\ c # o
        /\ calls[c].pc = "returned"
        /\ calls[c].result = <<"b">>
        /\ calls[o].pc = "vwhoami"
        /\ calls[o].login = <<"b">>
        /\ calls[o].password # calls[c].password

\* The exceptions the verification phase can raise: opening the connection and
\* binding, the who-am-i operation, and parsing the extended flag.
VerificationExceptions ==
    {"LDAPSocketOpenError", "LDAPExtensionError", "ValueError"}

\* C15: once the search has returned an entry and the verification phase has
\* started, every exception raised by opening the verification connection, by
\* its bind, by who-am-i or by parsing the extended flag is caught and login
\* returns the empty string; none of them reaches the caller.
C15_VerificationExceptionsAreCaught ==
    \A c \in DOMAIN calls :
        calls[c].vfy # "none"
        => /\ calls[c].pc # "raised"
           /\ calls[c].exc # ""
              => /\ calls[c].exc \in VerificationExceptions
                 /\ calls[c].pc = "returned"
                 /\ calls[c].result = <<>>

C15_Witness ==
    \E c \in DOMAIN calls :
        /\ calls[c].vfy # "none"
        /\ calls[c].users # <<>>
        /\ calls[c].exc = "LDAPExtensionError"
        /\ calls[c].pc = "returned"

\* The service bind failed (rejected, or an error raised by it) or the
\* who-am-i probe on the service connection raised.
ServicePhaseFailed(d) ==
    d.faults \cap {"svc_bind_raise", "svc_bind_reject", "svc_whoami"} # {}

\* C16: a failure of the service bind (a rejected bind or an error raised by
\* it) or an error raised by the who-am-i probe on the service connection
\* never ends the call: the search on the configured base is still executed.
C16_ServiceFailureNeverEndsTheCall ==
    \A c \in DOMAIN calls :
        (Ended(c) /\ ServicePhaseFailed(dir))
        => /\ calls[c].request # NoRequest
           /\ calls[c].request.search_base = auth.ldap_base

\* C17: login returns the input login only if, in that same call, the
\* verification bind as the resolved DN with the supplied password completed
\* with a success result; a call whose bind was rejected never returns success,
\* whatever who-am-i answers and whichever confirmation mode is configured.
C17_SuccessOnlyAfterSuccessfulBind ==
    \A c \in DOMAIN calls :
        (calls[c].pc = "returned" /\ calls[c].result # <<>>)
        => /\ calls[c].result = calls[c].login
           /\ calls[c].bind_result = 0
           /\ calls[c].password = PasswordOf(calls[c].user_dn)

\* A non-empty extra filter is configured.
ExtraFilterConfigured ==
    config.ldap_filter.set /\ config.ldap_filter.value # <<>>

\* C18: the search filter login sends is exactly
\* "(&(" + attribute + "=" + escaped(login) + ")" + extra + ")" when a
\* non-empty extra filter is configured and attribute + "=" + escaped(login)
\* otherwise; the search requests only the configured attribute, on the
\* configured base and scope.
C18_SearchRequestAsComposed ==
    \A c \in DOMAIN calls :
        calls[c].request # NoRequest
        => LET clause == <<auth.ldap_attribute, "=">>
                             \o escape_attribute_value(calls[c].login)
           IN /\ calls[c].request.search_filter =
                    (IF ExtraFilterConfigured
                     THEN <<"(", "&", "(">> \o clause \o <<")">>
                              \o config.ldap_filter.value \o <<")">>
                     ELSE clause)
              /\ calls[c].request.attributes = <<auth.ldap_attribute>>
              /\ calls[c].request.search_base = config.ldap_base.value
              /\ calls[c].request.search_scope = auth.ldap_scope
              /\ config.ldap_scope.set
                 => calls[c].request.search_scope = config.ldap_scope.value
              /\ config.ldap_attribute.set
                 => calls[c].request.attributes = <<config.ldap_attribute.value>>

C18_Witness ==
    \E c \in DOMAIN calls :
        /\ calls[c].request # NoRequest
        /\ ExtraFilterConfigured
        /\ calls[c].login = <<"*">>
        /\ calls[c].request.search_filter[1] = "("
        /\ calls[c].users # <<>>

\* Python values handed to parse_bool: strings, and the bool True.
PyValues ==
    {Str(s) : s \in {"True", "true", "yes", "False", "false", "no",
                     "TRUE", "maybe", "1", "0", ""}} \cup {PyTrue}

\* C19: parse_bool returns true exactly for "True", "true", "yes", false
\* exactly for "False", "false", "no", and raises a value error for every other
\* input, non-string values included; and the value checked at login time is
\* one the parser accepts whenever construction succeeded.
C19_ParseBoolAndLoginTimeFlag ==
    /\ \A v \in PyValues :
          /\ (~parse_bool(v).raised /\ parse_bool(v).value)
                <=> v \in {Str("True"), Str("true"), Str("yes")}
          /\ (~parse_bool(v).raised /\ ~parse_bool(v).value)
                <=> v \in {Str("False"), Str("false"), Str("no")}
          /\ parse_bool(v).raised
                <=> v \notin {Str("True"), Str("true"), Str("yes"),
                              Str("False"), Str("false"), Str("no")}
    /\ ctor = "ok" => ~parse_bool(auth.ldap_support_extended).raised

\* A connection of the call that is open (connected to the directory).
IsOpen(conn) == conn \in {"open", "bound"}

\* C20: within one login call the service connection is unbound before the
\* verification connection is opened, so at most one connection of the call is
\* open at any point; and when the search returns zero entries no verification
\* connection is opened and the password is never sent to the directory.
C20_OneOpenConnectionPerCall ==
    \A c \in DOMAIN calls :
        /\ ~(IsOpen(calls[c].svc) /\ IsOpen(calls[c].vfy))
        /\ calls[c].vfy # "none" => calls[c].svc = "unbound"
        /\ calls[c].users = <<>>
           => /\ calls[c].vfy = "none"
              /\ calls[c].bind_result = -1
              /\ calls[c].pc \notin {"vbind", "vwhoami", "vunbind"}

C20_Witness ==
    \E c \in DOMAIN calls :
        /\ calls[c].vfy = "bound"
        /\ calls[c].svc = "unbound"
        /\ calls[c].pc = "vwhoami"

====
